---- MODULE Spec2Model ----
(***************************************************************************)
(* A model of the DeliveryApp invoice form (src/App.tsx), its OCR          *)
(* extraction service (src/services/geminiService.ts) and the types, the   *)
(* signature pad and the PDF service of src/unnamed/part_000.              *)
(*                                                                         *)
(* Strings whose characters the code inspects (trim, toLowerCase, a        *)
(* regular expression, the CSV splitter) are sequences of one-character    *)
(* strings; strings the code only stores and compares are TLA+ strings.    *)
(* Numbers are integers: the arithmetic is exact.                          *)
(***************************************************************************)
EXTENDS Integers, Sequences, FiniteSets, TLC

VARIABLES
    formData,           \* useState<InvoiceData>            App.tsx:38
    errors,             \* useState<FormErrors>             App.tsx:39
    isProcessingOCR,    \* useState(false)                  App.tsx:40
    ocrError,           \* useState<string | null>          App.tsx:41
    vendorSignature,    \* useState<string | null>          App.tsx:42
    receiverSignature,  \* useState<string | null>          App.tsx:43
    activeSection,      \* useState<string | null>          App.tsx:44
    vendors,            \* useState<Vendor[]>               App.tsx:47
    sheetId,            \* useState(...)                    App.tsx:49
    sheetName,          \* useState(...)                    App.tsx:50
    nameCol,            \* useState('A')                    App.tsx:51
    emailCol,           \* useState('B')                    App.tsx:52
    showSheetConfig,    \* useState(false)                  App.tsx:54
    isFetchingVendors,  \* useState(false)                  App.tsx:55
    sheetError,         \* useState<string | null>          App.tsx:56
    pads,               \* isDrawing, isEmpty and the canvas of each mounted SignaturePad
    view,               \* the totals the last render wrote App.tsx:326-328
    nextId,             \* the ids crypto.randomUUID() has handed out
    ocrPc,              \* where the scan started by handleImageUpload stands
    fetches,            \* the fetchVendorsFromSheet calls awaiting their response
    out,                \* what the last handleSubmit did: its alert and its PDF call
    editedInFlight,     \* the last field or signature set was set while the scan now in
                        \* flight, or the scan merged last, was in flight
    csvLine,            \* a line of the sheet's CSV export
    csvRow              \* the row the splitter made of csvLine

formVars  == <<formData, errors, view, nextId>>
ocrVars   == <<isProcessingOCR, ocrError, ocrPc, editedInFlight>>
sigVars   == <<vendorSignature, receiverSignature, pads>>
sheetVars == <<vendors, sheetId, sheetName, nameCol, emailCol, showSheetConfig,
               isFetchingVendors, sheetError, fetches>>
csvVars   == <<csvLine, csvRow>>

vars == <<formVars, ocrVars, sigVars, sheetVars, csvVars, activeSection, out>>

----------------------------------------------------------------------------
(* Bounds of the model. *)

\* How many line-item ids crypto.randomUUID() hands out in one run.
MaxIds == 2

\* The longest vendor email validateForm is given.
MaxEmailLen == 5

\* How many requests for the sheet are in flight at once.
MaxFetches == 2

\* The longest line the CSV splitter is given.
MaxLineLen == 5

NULL == "null"

----------------------------------------------------------------------------
(* Input alphabets: the values the user types and the service returns. *)

\* e.target.value of the quantity and cost inputs, after Number().
QuantityInputs == {1, 2}
CostInputs     == {0, 3}
DescriptionInputs == {"", "Rice"}

LineItemTypes == {"deliveries", "returns"}

----------------------------------------------------------------------------
(* Line items and totals. *)

\* The item addLineItem creates.
NewLineItem(id) ==
    [id |-> id, quantity |-> 1, description |-> "", cost |-> 0, total |-> 0]

\* A plausible slip: the filter keeps the item with the id and drops the others.
RECURSIVE FilterOnlyId(_, _)
FilterOnlyId(items, id) ==
    IF items = <<>> THEN <<>>
    ELSE IF Head(items).id = id THEN <<Head(items)>> \o FilterOnlyId(Tail(items), id)
         ELSE FilterOnlyId(Tail(items), id)

\* items.filter(item => item.id !== id)
RECURSIVE FilterOutId(_, _)
FilterOutId(items, id) ==
    IF items = <<>> THEN <<>>
    ELSE IF Head(items).id = id THEN FilterOutId(Tail(items), id)
         ELSE <<Head(items)>> \o FilterOutId(Tail(items), id)

\* A plausible slip: the total is left as it was when quantity or cost changes.
UpdatedItemStaleTotal(item, field, value) ==
    [item EXCEPT ![field] = value]

\* The body of the map callback of updateLineItem for the item whose id matches.
UpdatedItem(item, field, value) ==
    LET updatedItem == [item EXCEPT ![field] = value]
    IN  IF field \in {"quantity", "cost"}
        THEN LET qty  == IF field = "quantity" THEN value ELSE item.quantity
                 cost == IF field = "cost" THEN value ELSE item.cost
             IN  [updatedItem EXCEPT !.total = qty * cost]
        ELSE updatedItem

\* A plausible slip: the edit is applied to every item of the list.
MapUpdateEveryItem(items, id, field, value) ==
    [i \in 1..Len(items) |-> UpdatedItem(items[i], field, value)]

\* prev[type].map(item => item.id === id ? updated : item)
MapUpdate(items, id, field, value) ==
    [i \in 1..Len(items) |->
        IF items[i].id = id THEN UpdatedItem(items[i], field, value) ELSE items[i]]

\* A plausible slip: the section total adds up the unit costs.
SectionTotalOfCosts(items) ==
    LET RECURSIVE Go(_, _)
        Go(acc, rest) == IF rest = <<>> THEN acc
                         ELSE Go(acc + Head(rest).cost, Tail(rest))
    IN  Go(0, items)

\* items.reduce((acc, curr) => acc + curr.total, 0)
calculateSectionTotal(items) ==
    LET RECURSIVE Go(_, _)
        Go(acc, rest) == IF rest = <<>> THEN acc
                         ELSE Go(acc + Head(rest).total, Tail(rest))
    IN  Go(0, items)

\* The three totals a render of App computes from the current formData and shows.
Render(fd) ==
    LET deliveryTotal == calculateSectionTotal(fd.deliveries)
        returnsTotal  == calculateSectionTotal(fd.returns)
    IN  [deliveryTotal |-> deliveryTotal,
         returnsTotal  |-> returnsTotal,
         netTotal      |-> deliveryTotal - returnsTotal]

----------------------------------------------------------------------------
(* The initial state. *)

\* new Date().toISOString().split('T')[0]
Today == "2026-11-02"

\* The numbers generateInvoiceNumber returns, INV-<yymmdd>-<4 random digits>: the
\* one the module is loaded with and another one.
FirstInvoiceNumber == <<"I", "N", "V", "-", "1">>
GeneratedInvoiceNumbers == { FirstInvoiceNumber, <<"I", "N", "V", "-", "2">> }

initialInvoiceState(invoiceNumber) ==
    [date               |-> Today,
     invoiceNumber      |-> invoiceNumber,
     deliveryLocation   |-> "Viendong",
     vendorName         |-> <<>>,
     vendorEmail        |-> <<>>,
     vendorSignerName   |-> "",
     receiverSignerName |-> "",
     deliveries         |-> <<>>,
     returns            |-> <<>>]

\* FormErrors: a field that is not set is undefined.
Undefined == "undefined"
NoErrors == [vendorName |-> Undefined, vendorEmail |-> Undefined, invoiceNumber |-> Undefined]

\* The state of a SignaturePad when it mounts: useState(false), useState(true), a blank canvas.
InitialPad == [isDrawing |-> FALSE, isEmpty |-> TRUE, ink |-> FALSE]
PadNames == {"vendor", "receiver"}
InitialPads == [p \in PadNames |-> InitialPad]

Sections == {"details", "delivery", "returns", "signatures"}

\* The pads exist only while the signatures section is rendered (App.tsx:677): a
\* change of section unmounts them, and they mount again in their initial state.
PadsAfter(section, current) ==
    IF section = "signatures" /\ activeSection = "signatures" THEN current ELSE InitialPads

\* out before the first submit: no alert, no PDF.
NoOutput == [alert |-> "none", pdfCalled |-> FALSE,
             pdf |-> [deliveryTotal |-> 0, returnsTotal |-> 0, netTotal |-> 0]]

----------------------------------------------------------------------------
(* extractInvoiceData (geminiService.ts). A parsed response is a function    *)
(* from the keys the JSON object has to their values; a number is            *)
(* [num |-> TRUE, v |-> n], a value Number() turns into NaN is               *)
(* [num |-> FALSE, v |-> 0].                                                 *)

Has(obj, key) == key \in DOMAIN obj

\* Number(x) || 0
NumberOrZero(obj, key) ==
    IF Has(obj, key) /\ obj[key].num THEN obj[key].v ELSE 0

\* A plausible slip: the extracted total is the unit cost.
ExtractedItemTotalIsCost(item, id) ==
    [id          |-> id,
     quantity    |-> NumberOrZero(item, "quantity"),
     description |-> IF Has(item, "description") THEN item.description ELSE "",
     cost        |-> NumberOrZero(item, "cost"),
     total       |-> NumberOrZero(item, "cost")]

\* The map callback of geminiService.ts:67-73.
ExtractedItem(item, id) ==
    [id          |-> id,
     quantity    |-> NumberOrZero(item, "quantity"),
     description |-> IF Has(item, "description") THEN item.description ELSE "",
     cost        |-> NumberOrZero(item, "cost"),
     total       |-> NumberOrZero(item, "quantity") * NumberOrZero(item, "cost")]

\* The value extractInvoiceData returns for the parsed response rawData, the
\* ids of its items being firstId, firstId + 1, ...
ExtractInvoiceData(rawData, firstId) ==
    LET rawItems == IF Has(rawData, "deliveries") THEN rawData.deliveries ELSE <<>>
    IN  [invoiceNumber |-> IF Has(rawData, "invoiceNumber") THEN rawData.invoiceNumber ELSE <<>>,
         date          |-> IF Has(rawData, "date") /\ rawData.date # "" THEN rawData.date ELSE Today,
         vendorName    |-> IF Has(rawData, "vendorName") THEN rawData.vendorName ELSE <<>>,
         vendorEmail   |-> IF Has(rawData, "vendorEmail") THEN rawData.vendorEmail ELSE <<>>,
         deliveries    |-> [i \in 1..Len(rawItems) |-> ExtractedItem(rawItems[i], firstId + i - 1)],
         returns       |-> <<>>]

\* A plausible slip: the extracted values are spread over nothing but themselves,
\* with no fallback to what the form holds.
OcrMergeNoFallback(prev, extractedData) ==
    [prev EXCEPT !.invoiceNumber = extractedData.invoiceNumber,
                 !.date          = extractedData.date,
                 !.vendorName    = extractedData.vendorName,
                 !.vendorEmail   = extractedData.vendorEmail,
                 !.deliveries    = extractedData.deliveries,
                 !.returns       = extractedData.returns]

\* A plausible slip: the extracted values are spread over the initial state, not
\* over the state the form is in when the response arrives.
OcrMergeOverInitial(prev, extractedData) ==
    LET base == initialInvoiceState(prev.invoiceNumber)
    IN  [base EXCEPT !.invoiceNumber = IF extractedData.invoiceNumber # <<>>
                                       THEN extractedData.invoiceNumber
                                       ELSE prev.invoiceNumber,
                     !.date          = extractedData.date,
                     !.vendorName    = extractedData.vendorName,
                     !.vendorEmail   = extractedData.vendorEmail,
                     !.deliveries    = IF Len(extractedData.deliveries) > 0
                                       THEN extractedData.deliveries
                                       ELSE prev.deliveries,
                     !.returns       = extractedData.returns]

\* The updater handleImageUpload passes to setFormData (App.tsx:211-218):
\* { ...prev, ...extractedData, invoiceNumber: ..., deliveries: ... }
OcrMerge(prev, extractedData) ==
    [prev EXCEPT !.invoiceNumber = IF extractedData.invoiceNumber # <<>>
                                   THEN extractedData.invoiceNumber
                                   ELSE prev.invoiceNumber,
                 !.date          = extractedData.date,
                 !.vendorName    = extractedData.vendorName,
                 !.vendorEmail   = extractedData.vendorEmail,
                 !.deliveries    = IF Len(extractedData.deliveries) > 0
                                   THEN extractedData.deliveries
                                   ELSE prev.deliveries,
                 !.returns       = extractedData.returns]

\* The message the catch of handleImageUpload shows.
OcrFailedMessage == "Failed to extract data. Please try again or fill manually."

\* The ways the promise of extractInvoiceData rejects.
OcrFailures == {"API Key is missing", "network error", "No data returned from Gemini",
                "JSON.parse: unexpected token"}

Num(n) == [num |-> TRUE, v |-> n]
NotANumber == [num |-> FALSE, v |-> 0]

\* Parsed responses of the extraction call.
OcrResponses ==
    { [invoiceNumber |-> <<"A", "7">>, date |-> "2024-01-05",
       vendorName |-> <<"A", "c", "m", "e">>, vendorEmail |-> <<"a", "@", "b", ".", "c">>,
       deliveries |-> << [quantity |-> Num(2), description |-> "Tea", cost |-> Num(3)] >>],
      [invoiceNumber |-> <<>>, date |-> "",
       vendorName |-> <<"B", "o", "l", "t">>,
       deliveries |-> <<>>],
      [date |-> "2024-01-05", vendorName |-> <<"B", "o", "l", "t">>,
       deliveries |-> << [quantity |-> NotANumber, cost |-> Num(3)] >>] }

----------------------------------------------------------------------------
(* Handlers for line items (App.tsx:155-193). The rows and the add button  *)
(* of a list are rendered only while its section is the active one          *)
(* (App.tsx:581, 621).                                                     *)

SectionOf(type) == IF type = "deliveries" THEN "delivery" ELSE "returns"

ItemIds(items) == {items[i].id : i \in 1..Len(items)}

addLineItem(type) ==
    /\ activeSection = SectionOf(type)
    /\ nextId <= MaxIds
    /\ formData' = [formData EXCEPT ![type] = Append(formData[type], NewLineItem(nextId))]
    /\ nextId' = nextId + 1
    /\ view' = Render(formData')
    /\ UNCHANGED <<errors, ocrVars, sigVars, sheetVars, csvVars, activeSection, out>>

removeLineItem(type, id) ==
    /\ activeSection = SectionOf(type)
    /\ id \in ItemIds(formData[type])
    /\ formData' = [formData EXCEPT ![type] = FilterOutId(formData[type], id)]
    /\ view' = Render(formData')
    /\ UNCHANGED <<errors, nextId, ocrVars, sigVars, sheetVars, csvVars, activeSection, out>>

updateLineItem(type, id, field, value) ==
    /\ activeSection = SectionOf(type)
    /\ id \in ItemIds(formData[type])
    /\ formData' = [formData EXCEPT ![type] = MapUpdate(formData[type], id, field, value)]
    /\ view' = Render(formData')
    /\ UNCHANGED <<errors, nextId, ocrVars, sigVars, sheetVars, csvVars, activeSection, out>>

\* The three inputs of a row (App.tsx:279-303).
EditRow(type, id) ==
    \/ \E value \in DescriptionInputs : updateLineItem(type, id, "description", value)
    \/ \E value \in QuantityInputs : updateLineItem(type, id, "quantity", value)
    \/ \E value \in CostInputs : updateLineItem(type, id, "cost", value)

----------------------------------------------------------------------------
(* Sections (App.tsx:269-271). *)

\* A plausible slip: the two branches of the conditional are swapped.
toggleSectionSwapped(section) ==
    /\ activeSection' = IF activeSection = section THEN section ELSE NULL
    /\ pads' = PadsAfter(activeSection', pads)
    /\ UNCHANGED <<formVars, ocrVars, vendorSignature, receiverSignature, sheetVars,
                   csvVars, out>>

\* setActiveSection(activeSection === section ? null : section)
toggleSection(section) ==
    /\ activeSection' = IF activeSection = section THEN NULL ELSE section
    /\ pads' = PadsAfter(activeSection', pads)
    /\ UNCHANGED <<formVars, ocrVars, vendorSignature, receiverSignature, sheetVars,
                   csvVars, out>>

----------------------------------------------------------------------------
(* The scan (App.tsx:196-229). The label that opens the file dialog takes  *)
(* no pointer events while isProcessingOCR is true (App.tsx:349).          *)

\* handleImageUpload up to reader.readAsDataURL(file); file is FALSE when the
\* change event carries no file.
handleImageUpload(file) ==
    /\ ~isProcessingOCR
    /\ IF file
       THEN /\ isProcessingOCR' = TRUE
            /\ ocrError' = NULL
            /\ ocrPc' = "reading"
            /\ editedInFlight' = FALSE
       ELSE UNCHANGED ocrVars
    /\ UNCHANGED <<formVars, sigVars, sheetVars, csvVars, activeSection, out>>

\* reader.onloadend fires when the read has ended, in success or in failure;
\* after a failed read reader.result is null, and base64String.split throws
\* (App.tsx:207) before the try block is entered.
readerLoadEnd(readOk) ==
    /\ ocrPc = "reading"
    /\ ocrPc' = IF readOk THEN "extracting" ELSE "idle"
    /\ editedInFlight' = (readOk /\ editedInFlight)
    /\ UNCHANGED <<isProcessingOCR, ocrError>>
    /\ UNCHANGED <<formVars, sigVars, sheetVars, csvVars, activeSection, out>>

\* What finally assigns to isProcessingOCR (App.tsx:223).
FinallyProcessingKept == isProcessingOCR
FinallyProcessing == FALSE

\* What a failed extraction makes of the form: nothing.
CatchFormCleared(prev) == initialInvoiceState(prev.invoiceNumber)
CatchForm(prev) == prev

\* await extractInvoiceData(...) returns: the try block runs to its end, then finally.
ocrResolve(rawData) ==
    LET extractedData == ExtractInvoiceData(rawData, nextId)
    IN  /\ ocrPc = "extracting"
        /\ nextId + Len(extractedData.deliveries) <= MaxIds + 1
        /\ formData' = OcrMerge(formData, extractedData)
        /\ nextId' = nextId + Len(extractedData.deliveries)
        /\ view' = Render(formData')
        /\ activeSection' = "details"
        /\ pads' = PadsAfter(activeSection', pads)
        /\ isProcessingOCR' = FinallyProcessing
        /\ ocrPc' = "idle"
        /\ UNCHANGED <<errors, ocrError, editedInFlight, vendorSignature, receiverSignature,
                       sheetVars, csvVars, out>>

\* await extractInvoiceData(...) throws: catch, then finally.
ocrReject(reason) ==
    /\ ocrPc = "extracting"
    /\ formData' = CatchForm(formData)
    /\ view' = Render(formData')
    /\ ocrError' = OcrFailedMessage
    /\ isProcessingOCR' = FinallyProcessing
    /\ ocrPc' = "idle"
    /\ editedInFlight' = FALSE
    /\ UNCHANGED <<errors, nextId, sigVars, sheetVars, csvVars, activeSection, out>>

\* The X of the error banner (App.tsx:367).
dismissOcrError ==
    /\ ocrError # NULL
    /\ ocrError' = NULL
    /\ UNCHANGED <<isProcessingOCR, ocrPc, editedInFlight>>
    /\ UNCHANGED <<formVars, sigVars, sheetVars, csvVars, activeSection, out>>

ScanStep(responses) ==
    \/ \E file \in BOOLEAN : handleImageUpload(file)
    \/ \E readOk \in BOOLEAN : readerLoadEnd(readOk)
    \/ \E rawData \in responses : ocrResolve(rawData)
    \/ \E reason \in OcrFailures : ocrReject(reason)
    \/ dismissOcrError

----------------------------------------------------------------------------
(* Strings as sequences of characters. *)

Whitespace == {" ", "\t"}

\* String.prototype.trim
RECURSIVE TrimStart(_)
TrimStart(str) ==
    IF str # <<>> /\ Head(str) \in Whitespace THEN TrimStart(Tail(str)) ELSE str

RECURSIVE TrimEnd(_)
TrimEnd(str) ==
    IF str # <<>> /\ str[Len(str)] \in Whitespace
    THEN TrimEnd(SubSeq(str, 1, Len(str) - 1)) ELSE str

Trim(str) == TrimEnd(TrimStart(str))

UpperCase ==
    <<"A", "B", "C", "D", "E", "F", "G", "H", "I", "J", "K", "L", "M">>
      \o <<"N", "O", "P", "Q", "R", "S", "T", "U", "V", "W", "X", "Y", "Z">>
LowerCase ==
    <<"a", "b", "c", "d", "e", "f", "g", "h", "i", "j", "k", "l", "m">>
      \o <<"n", "o", "p", "q", "r", "s", "t", "u", "v", "w", "x", "y", "z">>

\* The place of a letter in the alphabet, 1 to 26, whatever its case; 0 for any
\* other character.
LetterIndex(c) ==
    IF \E i \in 1..26 : UpperCase[i] = c \/ LowerCase[i] = c
    THEN CHOOSE i \in 1..26 : UpperCase[i] = c \/ LowerCase[i] = c
    ELSE 0

\* String.prototype.toLowerCase
ToLowerCase(str) ==
    [i \in 1..Len(str) |->
        IF \E k \in 1..26 : UpperCase[k] = str[i] THEN LowerCase[LetterIndex(str[i])]
        ELSE str[i]]

----------------------------------------------------------------------------
(* handleInputChange (App.tsx:59-74). The inputs of the header are rendered *)
(* in the details section, the signer names in the signatures section.      *)

DetailsFields == {"date", "invoiceNumber", "vendorName", "vendorEmail", "deliveryLocation"}
SignerFields  == {"vendorSignerName", "receiverSignerName"}

FieldIsRendered(name) ==
    \/ name \in DetailsFields /\ activeSection = "details"
    \/ name \in SignerFields /\ activeSection = "signatures"

\* A plausible slip: the last vendor with the name is taken, not the first.
FindLastVendor(value) ==
    LET matches == {i \in 1..Len(vendors) : ToLowerCase(vendors[i].name) = ToLowerCase(value)}
    IN  IF matches = {} THEN 0 ELSE CHOOSE i \in matches : \A j \in matches : i >= j

\* vendors.find(v => v.name.toLowerCase() === value.toLowerCase()): the index of
\* the first match, 0 when there is none.
FindVendor(value) ==
    LET matches == {i \in 1..Len(vendors) : ToLowerCase(vendors[i].name) = ToLowerCase(value)}
    IN  IF matches = {} THEN 0 ELSE CHOOSE i \in matches : \A j \in matches : i <= j

\* editedInFlight after a setter of a field or a signature has run: whether it
\* ran while a scan was in flight. A scan that starts or fails clears it.
InFlight == ocrPc # "idle"

handleInputChange(name, value) ==
    /\ FieldIsRendered(name)
    /\ formData' =
          LET changed == [formData EXCEPT ![name] = value]
              matched == IF name = "vendorName" /\ Len(vendors) > 0 THEN FindVendor(value) ELSE 0
          IN  IF matched # 0
              THEN [changed EXCEPT !.vendorName = value, !.vendorEmail = vendors[matched].email]
              ELSE changed
    /\ errors' = IF name \in DOMAIN errors /\ errors[name] # Undefined
                 THEN [errors EXCEPT ![name] = Undefined]
                 ELSE errors
    /\ view' = Render(formData')
    /\ editedInFlight' = InFlight
    /\ UNCHANGED <<nextId, isProcessingOCR, ocrError, ocrPc, sigVars, sheetVars, csvVars,
                   activeSection, out>>

regenerateInvoiceNumber ==
    /\ activeSection = "details"
    /\ \E n \in GeneratedInvoiceNumbers :
          formData' = [formData EXCEPT !.invoiceNumber = n]
    /\ view' = Render(formData')
    /\ UNCHANGED <<errors, nextId, ocrVars, sigVars, sheetVars, csvVars, activeSection, out>>

----------------------------------------------------------------------------
(* SignaturePad (part_000:45-190) and the setters App passes as onEnd       *)
(* (App.tsx:689, 701).                                                      *)

\* canvas.toDataURL(): a PNG of the canvas, blank or not.
ToDataURL(ink) == IF ink THEN "data:image/png;base64,INK" ELSE "data:image/png;base64,BLANK"

\* onEnd(dataUrl) of the pad: setVendorSignature or setReceiverSignature.
OnEnd(pad, dataUrl) ==
    /\ vendorSignature' = IF pad = "vendor" THEN dataUrl ELSE vendorSignature
    /\ receiverSignature' = IF pad = "receiver" THEN dataUrl ELSE receiverSignature
    /\ editedInFlight' = InFlight

\* onMouseDown, onTouchStart
startDrawing(pad) ==
    /\ activeSection = "signatures"
    /\ pads' = [pads EXCEPT ![pad].isDrawing = TRUE, ![pad].isEmpty = FALSE]
    /\ UNCHANGED <<formVars, ocrVars, vendorSignature, receiverSignature, sheetVars,
                   csvVars, activeSection, out>>

\* onMouseMove, onTouchMove
draw(pad) ==
    /\ activeSection = "signatures"
    /\ pads' = IF pads[pad].isDrawing THEN [pads EXCEPT ![pad].ink = TRUE] ELSE pads
    /\ UNCHANGED <<formVars, ocrVars, vendorSignature, receiverSignature, sheetVars,
                   csvVars, activeSection, out>>

\* onMouseUp, onMouseLeave, onTouchEnd
endDrawing(pad) ==
    /\ activeSection = "signatures"
    /\ pads' = [pads EXCEPT ![pad].isDrawing = FALSE]
    /\ OnEnd(pad, ToDataURL(pads[pad].ink))
    /\ UNCHANGED <<formVars, isProcessingOCR, ocrError, ocrPc, sheetVars, csvVars,
                   activeSection, out>>

\* The Clear button.
clear(pad) ==
    /\ activeSection = "signatures"
    /\ pads' = [pads EXCEPT ![pad].ink = FALSE, ![pad].isEmpty = TRUE]
    /\ OnEnd(pad, NULL)
    /\ UNCHANGED <<formVars, isProcessingOCR, ocrError, ocrPc, sheetVars, csvVars,
                   activeSection, out>>

PadStep ==
    \/ \E pad \in PadNames : startDrawing(pad)
    \/ \E pad \in PadNames : draw(pad)
    \/ \E pad \in PadNames : endDrawing(pad)
    \/ \E pad \in PadNames : clear(pad)

----------------------------------------------------------------------------
(* Validation and submit (App.tsx:232-267). *)

\* A character of the class [^\s@].
NeitherSpaceNorAt(c) == c \notin Whitespace /\ c # "@"

AllIn(str, from, to) == \A k \in from..to : NeitherSpaceNorAt(str[k])

\* A plausible slip: the expression without its \.[^\s@]+ part.
EmailRegexWithoutTld(str) ==
    \E at \in 2..(Len(str) - 1) :
        /\ str[at] = "@"
        /\ AllIn(str, 1, at - 1)
        /\ AllIn(str, at + 1, Len(str))

\* /^[^\s@]+@[^\s@]+\.[^\s@]+$/.test(str): the string splits into three
\* non-empty runs of [^\s@] with "@" after the first and "." after the second.
emailRegexTest(str) ==
    \E at \in 2..(Len(str) - 3) : \E dot \in (at + 2)..(Len(str) - 1) :
        /\ str[at] = "@"
        /\ str[dot] = "."
        /\ AllIn(str, 1, at - 1)
        /\ AllIn(str, at + 1, dot - 1)
        /\ AllIn(str, dot + 1, Len(str))

\* newErrors of validateForm.
NewErrors(fd) ==
    [vendorName    |-> IF Trim(fd.vendorName) = <<>>
                       THEN "Vendor name is required" ELSE Undefined,
     invoiceNumber |-> IF Trim(fd.invoiceNumber) = <<>>
                       THEN "Invoice number is required" ELSE Undefined,
     vendorEmail   |-> IF fd.vendorEmail # <<>> /\ ~emailRegexTest(fd.vendorEmail)
                       THEN "Invalid email format"
                       ELSE IF fd.vendorEmail = <<>>
                            THEN "Vendor email is required" ELSE Undefined]

\* The value validateForm returns: Object.keys(newErrors).length === 0
validateForm(fd) == NewErrors(fd) = NoErrors

\* A plausible slip: the PDF adds up the unit costs.
PdfSectionTotalOfCosts(items) ==
    LET RECURSIVE Go(_, _)
        Go(sum, rest) == IF rest = <<>> THEN sum
                         ELSE Go(sum + Head(rest).cost, Tail(rest))
    IN  Go(0, items)

\* reduce((sum, item) => sum + item.total, 0) of the PDF summary.
PdfSectionTotal(items) ==
    LET RECURSIVE Go(_, _)
        Go(sum, rest) == IF rest = <<>> THEN sum
                         ELSE Go(sum + Head(rest).total, Tail(rest))
    IN  Go(0, items)

\* The summary generateInvoicePDF writes into the document (part_000:303-342).
generateInvoicePDF(data) ==
    LET deliveryTotal == PdfSectionTotal(data.deliveries)
        returnsTotal  == PdfSectionTotal(data.returns)
    IN  [deliveryTotal |-> deliveryTotal,
         returnsTotal  |-> returnsTotal,
         netTotal      |-> deliveryTotal - returnsTotal]

FixErrorsAlert == "Please fix errors before submitting."
SignaturesAlert == "Both signatures are required."
SubmittedAlert == "Form submitted! Sending email... (Simulated)"
PdfErrorAlert == "Error generating PDF. Please try again."

\* A plausible slip: only the vendor's signature is asked for.
VendorSignatureMissing == vendorSignature = NULL

\* !vendorSignature || !receiverSignature
SignaturesMissing == vendorSignature = NULL \/ receiverSignature = NULL

\* pdfOk is FALSE when generateInvoicePDF throws (the jsPDF global is not loaded).
handleSubmit(pdfOk) ==
    /\ errors' = NewErrors(formData)
    /\ IF ~validateForm(formData)
       THEN /\ out' = [alert |-> FixErrorsAlert, pdfCalled |-> FALSE, pdf |-> NoOutput.pdf]
            /\ UNCHANGED <<activeSection, pads>>
       ELSE IF SignaturesMissing
       THEN /\ out' = [alert |-> SignaturesAlert, pdfCalled |-> FALSE, pdf |-> NoOutput.pdf]
            /\ activeSection' = "signatures"
            /\ pads' = PadsAfter(activeSection', pads)
       ELSE /\ out' = [alert |-> IF pdfOk THEN SubmittedAlert ELSE PdfErrorAlert,
                       pdfCalled |-> TRUE,
                       pdf |-> generateInvoicePDF(formData)]
            /\ UNCHANGED <<activeSection, pads>>
    /\ UNCHANGED <<formData, view, nextId, ocrVars, vendorSignature, receiverSignature,
                   sheetVars, csvVars>>

----------------------------------------------------------------------------
(* The vendor sheet (App.tsx:26-35, 81-152). *)

\* getColIndex: the letters of col, read as a number in base 26, minus one.
getColIndex(col) ==
    LET RECURSIVE Go(_, _)
        Go(sum, rest) ==
            IF rest = <<>> THEN sum
            ELSE IF LetterIndex(Head(rest)) = 0 THEN Go(sum, Tail(rest))
                 ELSE Go(sum * 26 + LetterIndex(Head(rest)), Tail(rest))
    IN  Go(0, col) - 1

\* csvText.split('\n')
SplitLines(text) ==
    LET RECURSIVE Go(_, _, _)
        Go(lines, current, rest) ==
            IF rest = <<>> THEN Append(lines, current)
            ELSE IF Head(rest) = "\n" THEN Go(Append(lines, current), <<>>, Tail(rest))
                 ELSE Go(lines, Append(current, Head(rest)), Tail(rest))
    IN  Go(<<>>, <<>>, text)

\* A plausible slip: line.split(','), which knows no quotes.
SplitAtEveryComma(line) ==
    LET RECURSIVE Go(_, _, _)
        Go(row, current, rest) ==
            IF rest = <<>> THEN Append(row, Trim(current))
            ELSE IF Head(rest) = "," THEN Go(Append(row, Trim(current)), <<>>, Tail(rest))
                 ELSE Go(row, Append(current, Head(rest)), Tail(rest))
    IN  Go(<<>>, <<>>, line)

\* The body of lines.forEach (App.tsx:109-126): the row of one line.
SplitLine(line) ==
    LET RECURSIVE Go(_, _, _, _)
        Go(i, row, current, inQuote) ==
            IF i > Len(line) THEN Append(row, Trim(current))
            ELSE LET char == line[i]
                 IN  IF char = "\"" THEN Go(i + 1, row, current, ~inQuote)
                     ELSE IF char = "," /\ ~inQuote
                          THEN Go(i + 1, Append(row, Trim(current)), <<>>, inQuote)
                          ELSE Go(i + 1, row, Append(current, char), inQuote)
    IN  Go(1, <<>>, <<>>, FALSE)

\* rows of fetchVendorsFromSheet
ParseCsv(csvText) ==
    LET lines == SplitLines(csvText)
    IN  [i \in 1..Len(lines) |-> SplitLine(lines[i])]

\* str.replace(/^"|"$/g, '')
StripQuotes(str) ==
    LET noFirst == IF str # <<>> /\ Head(str) = "\"" THEN Tail(str) ELSE str
    IN  IF noFirst # <<>> /\ noFirst[Len(noFirst)] = "\""
        THEN SubSeq(noFirst, 1, Len(noFirst) - 1) ELSE noFirst

\* cols[idx]?.replace(/^"|"$/g, '').trim() || ''
CleanCell(cols, idx) ==
    IF idx + 1 \in 1..Len(cols) THEN Trim(StripQuotes(cols[idx + 1])) ELSE <<>>

VendorNameHeader ==
    <<"v", "e", "n", "d", "o", "r", " ", "n", "a", "m", "e">>

\* loadedVendors (App.tsx:128-136): the rows mapped to vendors, then filtered;
\* index counts the rows from 0.
LoadedVendors(rows, nameIdx, emailIdx) ==
    LET mapped == [i \in 1..Len(rows) |->
                      [name |-> CleanCell(rows[i], nameIdx),
                       email |-> CleanCell(rows[i], emailIdx)]]
        Keep(v, index) == /\ v.name # <<>>
                          /\ ToLowerCase(v.name) # VendorNameHeader
                          /\ index > 0
        RECURSIVE Filter(_)
        Filter(i) == IF i > Len(mapped) THEN <<>>
                     ELSE (IF Keep(mapped[i], i - 1) THEN <<mapped[i]>> ELSE <<>>)
                            \o Filter(i + 1)
    IN  Filter(1)

EnterSheetMessage == "Please enter Spreadsheet ID and Sheet Name"
NotOkMessage == "Failed to connect. Ensure the Google Sheet is 'Public' (Anyone with the link) and the Sheet Name is correct."
NoVendorsMessage == "No valid vendors found. Check column letters."
\* The message of the TypeError a fetch that cannot connect rejects with.
NetworkMessage == "Failed to fetch"

\* "Vendor Name","Email" | "Ab","a@b.c" | "B, a","b@b.c"
SheetWithTwoVendors ==
    <<"\"", "V", "e", "n", "d", "o", "r", " ", "N", "a", "m", "e", "\"", ",",
      "\"", "E", "m", "a", "i", "l", "\"", "\n", "\"", "A", "b", "\"", ",",
      "\"", "a", "@", "b", ".", "c", "\"", "\n", "\"", "B", ",", " ", "a",
      "\"", ",", "\"", "b", "@", "b", ".", "c", "\"">>

\* "Vendor Name","Email"
SheetWithHeaderOnly ==
    <<"\"", "V", "e", "n", "d", "o", "r", " ", "N", "a", "m", "e", "\"", ",",
      "\"", "E", "m", "a", "i", "l", "\"">>

\* Ab,a@b.c | ,b@b.c | vendor name,c@b.c | Ba,
SheetWithoutHeader ==
    <<"A", "b", ",", "a", "@", "b", ".", "c", "\n", ",", "b", "@", "b", ".",
      "c", "\n", "v", "e", "n", "d", "o", "r", " ", "n", "a", "m", "e", ",",
      "c", "@", "b", ".", "c", "\n", "B", "a", ",">>

CsvTexts == {SheetWithTwoVendors, SheetWithHeaderOnly, SheetWithoutHeader}

\* What a request comes back with: a rejected fetch, a response that is not
\* ok, or a CSV text.
SheetResponses ==
    {[kind |-> "network", text |-> <<>>], [kind |-> "notOk", text |-> <<>>]}
      \cup {[kind |-> "text", text |-> t] : t \in CsvTexts}

\* What the try block throws on a response to a request, NULL when it does not.
SheetFailure(request, response) ==
    IF response.kind = "network" THEN NetworkMessage
    ELSE IF response.kind = "notOk" THEN NotOkMessage
    ELSE IF LoadedVendors(ParseCsv(response.text), request.nameIdx, request.emailIdx) = <<>>
         THEN NoVendorsMessage
         ELSE NULL

\* The Sync button is disabled while isFetchingVendors (App.tsx:446); the
\* refresh button beside the vendor name is not (App.tsx:517-523).
SyncButtons == {"sync", "refresh"}
ButtonIsRendered(button) ==
    /\ activeSection = "details"
    /\ IF button = "sync" THEN showSheetConfig /\ ~isFetchingVendors
       ELSE Len(vendors) > 0

\* fetchVendorsFromSheet up to await fetch(csvUrl).
fetchVendorsFromSheet(button) ==
    /\ ButtonIsRendered(button)
    /\ IF sheetId = "" \/ sheetName = ""
       THEN /\ sheetError' = EnterSheetMessage
            /\ UNCHANGED <<isFetchingVendors, fetches>>
       ELSE /\ Len(fetches) < MaxFetches
            /\ isFetchingVendors' = TRUE
            /\ sheetError' = NULL
            /\ fetches' = Append(fetches, [nameIdx |-> getColIndex(nameCol),
                                           emailIdx |-> getColIndex(emailCol)])
    /\ UNCHANGED <<vendors, sheetId, sheetName, nameCol, emailCol, showSheetConfig>>
    /\ UNCHANGED <<formVars, ocrVars, sigVars, csvVars, activeSection, out>>

RemoveAt(seq, i) == SubSeq(seq, 1, i - 1) \o SubSeq(seq, i + 1, Len(seq))

\* The rest of fetchVendorsFromSheet, run when the response to the i-th
\* request in flight is in: try, catch, finally.
fetchResponds(i, response) ==
    /\ i \in 1..Len(fetches)
    /\ LET failure == SheetFailure(fetches[i], response)
       IN  IF failure = NULL
           THEN /\ vendors' = LoadedVendors(ParseCsv(response.text),
                                            fetches[i].nameIdx, fetches[i].emailIdx)
                /\ showSheetConfig' = FALSE
                /\ UNCHANGED sheetError
           ELSE /\ sheetError' = failure
                /\ UNCHANGED <<vendors, showSheetConfig>>
    /\ isFetchingVendors' = FALSE
    /\ fetches' = RemoveAt(fetches, i)
    /\ UNCHANGED <<sheetId, sheetName, nameCol, emailCol>>
    /\ UNCHANGED <<formVars, ocrVars, sigVars, csvVars, activeSection, out>>

\* The Configure / Hide Settings button (App.tsx:390).
toggleSheetConfig ==
    /\ activeSection = "details"
    /\ showSheetConfig' = ~showSheetConfig
    /\ UNCHANGED <<vendors, sheetId, sheetName, nameCol, emailCol, isFetchingVendors,
                   sheetError, fetches>>
    /\ UNCHANGED <<formVars, ocrVars, sigVars, csvVars, activeSection, out>>

\* The four inputs of the panel (App.tsx:406-441).
setSheetSetting(setting, value) ==
    /\ activeSection = "details" /\ showSheetConfig
    /\ sheetId' = IF setting = "sheetId" THEN value ELSE sheetId
    /\ sheetName' = IF setting = "sheetName" THEN value ELSE sheetName
    /\ nameCol' = IF setting = "nameCol" THEN value ELSE nameCol
    /\ emailCol' = IF setting = "emailCol" THEN value ELSE emailCol
    /\ UNCHANGED <<vendors, showSheetConfig, isFetchingVendors, sheetError, fetches>>
    /\ UNCHANGED <<formVars, ocrVars, sigVars, csvVars, activeSection, out>>

----------------------------------------------------------------------------
(* The form: line items, sections and the scan. *)

DefaultSheetId == "1leRhIc6X9whceYw9p2uIo8rLyL-mnvP-GMXEkREFb9w"

InitWith(fd) ==
    /\ formData = fd
    /\ errors = NoErrors
    /\ isProcessingOCR = FALSE
    /\ ocrError = NULL
    /\ vendorSignature = NULL
    /\ receiverSignature = NULL
    /\ activeSection = "details"
    /\ vendors = <<>>
    /\ sheetId = DefaultSheetId
    /\ sheetName = "DeliveryApp"
    /\ nameCol = <<"A">>
    /\ emailCol = <<"B">>
    /\ showSheetConfig = FALSE
    /\ isFetchingVendors = FALSE
    /\ sheetError = NULL
    /\ pads = InitialPads
    /\ view = [deliveryTotal |-> 0, returnsTotal |-> 0, netTotal |-> 0]
    /\ nextId = 1
    /\ ocrPc = "idle"
    /\ fetches = <<>>
    /\ out = NoOutput
    /\ editedInFlight = FALSE
    /\ csvRow = <<>>

Init ==
    /\ InitWith(initialInvoiceState(FirstInvoiceNumber))
    /\ csvLine = <<>>

ItemStep ==
    \/ \E type \in LineItemTypes : addLineItem(type)
    \/ \E type \in LineItemTypes : \E id \in 1..MaxIds : removeLineItem(type, id)
    \/ \E type \in LineItemTypes : \E id \in 1..MaxIds : EditRow(type, id)

Next ==
    \/ ItemStep
    \/ \E section \in Sections : toggleSection(section)
    \/ ScanStep(OcrResponses)

Spec == Init /\ [][Next]_vars

----------------------------------------------------------------------------
(* The scan beside the edits of the fields it does not extract. *)

LocationInputs == {"Viendong", "Worldfoods"}
SignerNameInputs == {"", "Sam"}

UnscannedFieldStep ==
    \/ \E value \in LocationInputs : handleInputChange("deliveryLocation", value)
    \/ \E name \in SignerFields : \E value \in SignerNameInputs : handleInputChange(name, value)

\* The responses that name no line item.
HeaderResponses == {rawData \in OcrResponses : Len(rawData.deliveries) = 0}

NextScan ==
    \/ ScanStep(HeaderResponses)
    \/ \E section \in Sections : toggleSection(section)
    \/ UnscannedFieldStep
    \/ PadStep

SpecScan == Init /\ [][NextScan]_vars

----------------------------------------------------------------------------
(* Submitting the form: the required fields, the pads and the submit button. *)

NameInputs == { <<>>, <<"A", "b">> }
NumberInputs == { <<>>, <<" ">> }
EmailInputs == { <<>>, <<"a", "@", "b">>, <<"a", "@", "b", ".", "c">> }

RequiredFieldStep ==
    \/ \E value \in NameInputs : handleInputChange("vendorName", value)
    \/ \E value \in NumberInputs : handleInputChange("invoiceNumber", value)
    \/ \E value \in EmailInputs : handleInputChange("vendorEmail", value)
    \/ regenerateInvoiceNumber

NextSubmit ==
    \/ RequiredFieldStep
    \/ \E section \in Sections : toggleSection(section)
    \/ PadStep
    \/ \E pdfOk \in BOOLEAN : handleSubmit(pdfOk)

SpecSubmit == Init /\ [][NextSubmit]_vars

----------------------------------------------------------------------------
(* validateForm over the strings the three required fields can hold: typed, *)
(* pasted or extracted from a scan.                                         *)

\* The strings over an alphabet of at most n characters.
StringsUpTo(alphabet, n) == UNION {[1..k -> alphabet] : k \in 0..n}

EmailAlphabet == {"a", "@", ".", " "}
RequiredStrings == { <<>>, <<" ">>, <<"a">>, <<" ", "a", " ">> }

InitValidate ==
    \E name \in RequiredStrings, number \in RequiredStrings,
       email \in StringsUpTo(EmailAlphabet, MaxEmailLen) :
        /\ InitWith([initialInvoiceState(number) EXCEPT !.vendorName = name,
                                                         !.vendorEmail = email])
        /\ csvLine = <<>>

NextValidate ==
    \/ RequiredFieldStep
    \/ \E pdfOk \in BOOLEAN : handleSubmit(pdfOk)

SpecValidate == InitValidate /\ [][NextValidate]_vars

----------------------------------------------------------------------------
(* Syncing the vendors with the sheet. *)

SheetIdInputs == {"", DefaultSheetId}
SheetNameInputs == {"", "DeliveryApp"}
NameColInputs == { <<"A">>, <<"c">> }
EmailColInputs == { <<"B">>, <<"A", "A">> }

SheetSettingStep ==
    \/ \E value \in SheetIdInputs : setSheetSetting("sheetId", value)
    \/ \E value \in SheetNameInputs : setSheetSetting("sheetName", value)
    \/ \E value \in NameColInputs : setSheetSetting("nameCol", value)
    \/ \E value \in EmailColInputs : setSheetSetting("emailCol", value)

NextSheet ==
    \/ toggleSheetConfig
    \/ SheetSettingStep
    \/ \E button \in SyncButtons : fetchVendorsFromSheet(button)
    \/ \E i \in 1..MaxFetches : \E response \in SheetResponses : fetchResponds(i, response)

SpecSheet == Init /\ [][NextSheet]_vars

----------------------------------------------------------------------------
(* The CSV splitter over every short line. *)

CsvAlphabet == {"a", ",", "\"", " "}

InitCsv ==
    /\ InitWith(initialInvoiceState(FirstInvoiceNumber))
    /\ csvLine \in StringsUpTo(CsvAlphabet, MaxLineLen)

\* One turn of lines.forEach: rows.push(row). A row has at least one field.
pushRow ==
    /\ csvRow = <<>>
    /\ csvRow' = SplitLine(csvLine)
    /\ UNCHANGED <<csvLine, formVars, ocrVars, sigVars, sheetVars, activeSection, out>>

SpecCsv == InitCsv /\ [][pushRow]_vars

----------------------------------------------------------------------------
(* Properties of the line items and the totals. *)

AllItems == {formData.deliveries[i] : i \in 1..Len(formData.deliveries)}
              \cup {formData.returns[i] : i \in 1..Len(formData.returns)}

\* C1: in every state reached through addLineItem, removeLineItem, updateLineItem
\* and the merge of a successful extraction, every line item of the deliveries and
\* of the returns has total = quantity * cost.
C1_TotalIsQuantityTimesCost ==
    \A item \in AllItems : item.total = item.quantity * item.cost

\* An edited return of total 6 beside a delivery the extraction made.
C1_Witness ==
    /\ \E i \in 1..Len(formData.returns) :
          formData.returns[i].quantity = 2 /\ formData.returns[i].total = 6
    /\ \E i \in 1..Len(formData.deliveries) : formData.deliveries[i].description = "Tea"

\* The sum of the totals of a list, taken from its last item to its first.
RECURSIVE SumOfTotals(_)
SumOfTotals(items) ==
    IF Len(items) = 0 THEN 0
    ELSE items[Len(items)].total + SumOfTotals(SubSeq(items, 1, Len(items) - 1))

\* C2: in every state the net total on display is the sum of the totals of the
\* deliveries minus the sum of the totals of the returns of the current lists.
C2_NetTotalIsDeliveriesMinusReturns ==
    /\ view.deliveryTotal = SumOfTotals(formData.deliveries)
    /\ view.returnsTotal = SumOfTotals(formData.returns)
    /\ view.netTotal = SumOfTotals(formData.deliveries) - SumOfTotals(formData.returns)

\* A delivery of 6 and a return of 3 are on the form and 3 is on display.
C2_Witness ==
    /\ Len(formData.deliveries) = 1 /\ formData.deliveries[1].total = 6
    /\ Len(formData.returns) = 1 /\ formData.returns[1].total = 3
    /\ view.netTotal = 3

----------------------------------------------------------------------------
(* Properties of the scan. *)

\* The scan label takes pointer events (App.tsx:349).
ScanControlEnabled == ~isProcessingOCR

\* C6: when the extraction call fails, formData is left as it was, ocrError is
\* set to the failure message, isProcessingOCR is false again and the scan
\* control is enabled again.
C6_FailedExtractionLeavesForm ==
    [][(\E reason \in OcrFailures : ocrReject(reason)) =>
          /\ formData' = formData
          /\ ocrError' = OcrFailedMessage
          /\ isProcessingOCR' = FALSE
          /\ ScanControlEnabled']_vars

\* A failed extraction has been reported and the return the user entered is
\* still on the form.
C6_Witness ==
    /\ ocrPc = "idle"
    /\ ocrError = OcrFailedMessage
    /\ ~isProcessingOCR
    /\ Len(formData.returns) > 0

\* C7: once a scan has been started, isProcessingOCR becomes false again for
\* every outcome of the file read and of the extraction call. Only the
\* callbacks of a scan reset the flag, and none starts while it is set: the
\* flag becomes false again exactly if it is false whenever no callback of a
\* scan is left to run.
C7_ScanControlNeverStaysDisabled ==
    ocrPc = "idle" => ~isProcessingOCR

\* C10: after a successful extraction invoiceNumber is the extracted number if
\* that is not empty and else the number the form held, and deliveries is
\* the extracted list if it has an item and else the list the form held.
C10_MergeKeepsNumberAndItemsWhenNoneExtracted ==
    [][\A rawData \in OcrResponses : ocrResolve(rawData) =>
          LET extracted == ExtractInvoiceData(rawData, nextId)
          IN  /\ formData'.invoiceNumber =
                    IF extracted.invoiceNumber = <<>> THEN formData.invoiceNumber
                    ELSE extracted.invoiceNumber
              /\ formData'.deliveries =
                    IF Len(extracted.deliveries) >= 1 THEN extracted.deliveries
                    ELSE formData.deliveries]_vars

\* The response without number and without items (the only one that leaves the
\* date at today's beside the vendor Bolt) has been merged, and the form still
\* holds its generated number and the delivery the user added.
C10_Witness ==
    /\ ocrPc = "idle" /\ ~isProcessingOCR
    /\ formData.vendorName = <<"B", "o", "l", "t">> /\ formData.date = Today
    /\ formData.invoiceNumber = FirstInvoiceNumber
    /\ Len(formData.deliveries) = 1 /\ formData.deliveries[1].description = "Rice"

\* C9: a response is applied to the state current when it arrives: what the
\* user set of deliveryLocation, vendorSignerName, receiverSignerName and the
\* two signatures while the extraction was in flight is still there after the
\* response has been merged.
C9_MergeKeepsInFlightEdits ==
    [][(\E rawData \in OcrResponses : ocrResolve(rawData)) =>
          /\ formData'.deliveryLocation = formData.deliveryLocation
          /\ formData'.vendorSignerName = formData.vendorSignerName
          /\ formData'.receiverSignerName = formData.receiverSignerName
          /\ vendorSignature' = vendorSignature
          /\ receiverSignature' = receiverSignature]_vars

\* The response has been merged (the vendor is Bolt), the last edit was made
\* while it was in flight, and location, signer names and signatures are the
\* values the user set.
C9_Witness ==
    /\ editedInFlight /\ ocrPc = "idle" /\ ~isProcessingOCR
    /\ formData.vendorName = <<"B", "o", "l", "t">>
    /\ formData.deliveryLocation = "Worldfoods"
    /\ formData.vendorSignerName = "Sam" /\ formData.receiverSignerName = "Sam"
    /\ vendorSignature = ToDataURL(TRUE) /\ receiverSignature = ToDataURL(TRUE)

----------------------------------------------------------------------------
(* Properties of validation and submit. *)

Count(str, c) == Cardinality({i \in 1..Len(str) : str[i] = c})

NonBlank(str) == \E i \in 1..Len(str) : str[i] \notin Whitespace

\* local@domain.tld: one "@", no whitespace, something before the "@", and
\* after it a "." with something on either side.
WellFormedEmail(str) ==
    /\ Count(str, "@") = 1
    /\ \A i \in 1..Len(str) : str[i] \notin Whitespace
    /\ LET at == CHOOSE i \in 1..Len(str) : str[i] = "@"
       IN  /\ at > 1
           /\ \E i \in (at + 2)..(Len(str) - 1) : str[i] = "."

\* The errors the claim expects for a form.
ExpectedErrors(fd) ==
    [vendorName    |-> IF NonBlank(fd.vendorName) THEN Undefined
                       ELSE "Vendor name is required",
     invoiceNumber |-> IF NonBlank(fd.invoiceNumber) THEN Undefined
                       ELSE "Invoice number is required",
     vendorEmail   |-> IF fd.vendorEmail = <<>> THEN "Vendor email is required"
                       ELSE IF WellFormedEmail(fd.vendorEmail) THEN Undefined
                       ELSE "Invalid email format"]

\* C3: validateForm returns true exactly when vendorName and invoiceNumber are
\* not blank after trimming and vendorEmail is a non-empty local@domain.tld
\* without whitespace or a second "@"; otherwise it returns false, and either
\* way errors becomes exactly the errors of the failing fields, whatever it
\* held. handleSubmit shows the fix-errors alert exactly when it returned false.
C3_ValidateFormRequiredFields ==
    [][(\E pdfOk \in BOOLEAN : handleSubmit(pdfOk)) =>
          /\ errors' = ExpectedErrors(formData)
          /\ (out'.alert # FixErrorsAlert) <=>
                (/\ NonBlank(formData.vendorName)
                 /\ NonBlank(formData.invoiceNumber)
                 /\ formData.vendorEmail # <<>>
                 /\ WellFormedEmail(formData.vendorEmail))]_vars

\* A submit has replaced an earlier set of errors: the email has an "@" but no
\* top-level domain and is reported as malformed, nothing else is.
C3_Witness ==
    /\ out.alert = FixErrorsAlert
    /\ formData.vendorEmail = <<"a", "@", "b">>
    /\ errors = [vendorName |-> Undefined, invoiceNumber |-> Undefined,
                 vendorEmail |-> "Invalid email format"]
    /\ formData.vendorName = <<"A", "b">>

\* C4: handleSubmit calls generateInvoicePDF only when validateForm succeeds
\* and both signatures are set; in every other state no PDF is made and the
\* user gets an alert.
C4_PdfOnlyWhenValidAndSigned ==
    [][(\E pdfOk \in BOOLEAN : handleSubmit(pdfOk)) =>
          LET ready == /\ validateForm(formData)
                       /\ vendorSignature # NULL
                       /\ receiverSignature # NULL
          IN  /\ out'.pdfCalled <=> ready
              /\ ~ready => out'.alert \in {FixErrorsAlert, SignaturesAlert}]_vars

\* A valid and twice signed form has been submitted.
C4_Witness ==
    /\ out.pdfCalled /\ out.alert = SubmittedAlert
    /\ validateForm(formData)
    /\ vendorSignature = ToDataURL(TRUE) /\ receiverSignature = ToDataURL(TRUE)

----------------------------------------------------------------------------
(* Properties of the CSV splitter. *)

QuotesBefore(line, i) == Cardinality({j \in 1..(i - 1) : line[j] = "\""})

\* The commas outside double quotes: those an even number of quotes precede.
SplitPoints(line) ==
    {i \in 1..Len(line) : line[i] = "," /\ QuotesBefore(line, i) % 2 = 0}

\* The positions of the line between its (k-1)-th and its k-th split point.
Segment(line, k) ==
    {p \in 1..Len(line) :
        /\ p \notin SplitPoints(line)
        /\ Cardinality({q \in SplitPoints(line) : q < p}) = k - 1}

\* C5: the splitter splits a line only at the commas outside double quotes: it
\* makes one field more than there are commas preceded by an even number of
\* quotes, a comma inside quotes stays in the value of its field, and no
\* field value holds a quote character.
C5_SplitOnlyAtUnquotedCommas ==
    csvRow # <<>> =>
        /\ Len(csvRow) = Cardinality(SplitPoints(csvLine)) + 1
        /\ \A k \in 1..Len(csvRow) :
              /\ Count(csvRow[k], "\"") = 0
              /\ Count(csvRow[k], ",") =
                    Cardinality({p \in Segment(csvLine, k) : csvLine[p] = ","})

\* The line ",",a has been split into the fields , and a.
C5_Witness ==
    /\ csvLine = <<"\"", ",", "\"", ",", "a">>
    /\ csvRow = << <<",">>, <<"a">> >>

----------------------------------------------------------------------------
(* Properties of the vendor sync. *)

\* What the claim says of a sync that fails.
FailedSyncEffect ==
    /\ sheetError' # NULL
    /\ vendors' = vendors
    /\ showSheetConfig' = showSheetConfig
    /\ isFetchingVendors' = FALSE

\* C8: when a vendor sync fails (no sheetId or sheetName, a response that is
\* not OK, a network error, no valid vendor row), sheetError is set to a
\* message, the vendors loaded before are unchanged, the configuration panel
\* is not closed and isFetchingVendors ends false; with no sheetId or
\* sheetName no request is sent.
C8_FailedSyncLeavesVendors ==
    [][/\ \A button \in SyncButtons :
             fetchVendorsFromSheet(button) /\ (sheetId = "" \/ sheetName = "") =>
                FailedSyncEffect /\ fetches' = fetches
       /\ \A i \in 1..MaxFetches : \A response \in SheetResponses :
             fetchResponds(i, response) /\ SheetFailure(fetches[i], response) # NULL =>
                FailedSyncEffect]_vars

----------------------------------------------------------------------------
(* Properties of the scan and the returns list. *)

\* C11: a successful extraction overwrites only header fields and the
\* deliveries list: the returns list is the same after the merge as before it.
C11_MergeKeepsReturns ==
    [][(\E rawData \in OcrResponses : ocrResolve(rawData)) =>
          formData'.returns = formData.returns]_vars

----------------------------------------------------------------------------
(* The line items alone: the two lists, their rows and the sections.        *)

NextItems ==
    \/ ItemStep
    \/ \E section \in Sections : toggleSection(section)

SpecItems == Init /\ [][NextItems]_vars

----------------------------------------------------------------------------
(* Properties of the line item handlers. *)

OtherType(type) == IF type = "deliveries" THEN "returns" ELSE "deliveries"

HeaderFields == DetailsFields \cup SignerFields

HeaderUnchanged == \A name \in HeaderFields : formData'[name] = formData[name]

\* The edits a row offers: a field and a value for it.
LineItemEdits ==
    ({"description"} \X DescriptionInputs) \cup ({"quantity"} \X QuantityInputs)
        \cup ({"cost"} \X CostInputs)

\* What the claim says of the item an edit is made to.
EditedAsClaimed(old, new, field, value) ==
    /\ new.id = old.id
    /\ new[field] = value
    /\ field = "quantity" =>
          new.cost = old.cost /\ new.description = old.description
              /\ new.total = value * old.cost
    /\ field = "cost" =>
          new.quantity = old.quantity /\ new.description = old.description
              /\ new.total = old.quantity * value
    /\ field = "description" =>
          new.quantity = old.quantity /\ new.cost = old.cost /\ new.total = old.total

\* C12: updateLineItem(type, id, field, value) changes at most the item with
\* that id in the named list: every other item of the list, the other list
\* and the header fields are unchanged, and so are the order and the length
\* of the list; an edit of quantity or cost sets total to the new value times
\* the other operand, an edit of description leaves quantity, cost and total.
C12_UpdateChangesOneItem ==
    [][\A type \in LineItemTypes : \A id \in ItemIds(formData[type]) :
          \A edit \in LineItemEdits :
             updateLineItem(type, id, edit[1], edit[2]) =>
                /\ Len(formData'[type]) = Len(formData[type])
                /\ \A i \in 1..Len(formData[type]) :
                      IF formData[type][i].id = id
                      THEN EditedAsClaimed(formData[type][i], formData'[type][i],
                                           edit[1], edit[2])
                      ELSE formData'[type][i] = formData[type][i]
                /\ formData'[OtherType(type)] = formData[OtherType(type)]
                /\ HeaderUnchanged]_vars

\* The second of two returns was edited to 2 x 3 = 6 of Rice, the first is as
\* addLineItem made it.
C12_Witness ==
    formData.returns =
        << NewLineItem(1),
           [id |-> 2, quantity |-> 2, description |-> "Rice", cost |-> 3, total |-> 6] >>

----------------------------------------------------------------------------
(* The vendor name and the vendor directory: syncs and the two vendor       *)
(* inputs of the details section.                                           *)

\* Vendor Name,Email | Ab,a@b.c | aB,b@b.c
SheetWithSameNameTwice ==
    <<"V", "e", "n", "d", "o", "r", " ", "N", "a", "m", "e", ",", "E", "m",
      "a", "i", "l", "\n", "A", "b", ",", "a", "@", "b", ".", "c", "\n", "a",
      "B", ",", "b", "@", "b", ".", "c">>

VendorResponses ==
    {[kind |-> "text", text |-> t] : t \in {SheetWithSameNameTwice, SheetWithoutHeader}}
      \cup {[kind |-> "notOk", text |-> <<>>]}

VendorNameInputs == { <<>>, <<"a", "b">>, <<"A", "B">>, <<"B", "A">>, <<"A", "b", " ">> }
VendorEmailInputs == { <<>>, <<"z", "@", "b", ".", "c">> }

VendorFieldStep ==
    \/ \E value \in VendorNameInputs : handleInputChange("vendorName", value)
    \/ \E value \in VendorEmailInputs : handleInputChange("vendorEmail", value)

NextVendor ==
    \/ toggleSheetConfig
    \/ \E button \in SyncButtons : fetchVendorsFromSheet(button)
    \/ \E i \in 1..MaxFetches : \E response \in VendorResponses : fetchResponds(i, response)
    \/ VendorFieldStep

SpecVendor == Init /\ [][NextVendor]_vars

----------------------------------------------------------------------------
(* Properties of the vendor autofill. *)

\* Two strings are equal when the case of their letters is ignored.
EqualIgnoringCase(a, b) ==
    /\ Len(a) = Len(b)
    /\ \A i \in 1..Len(a) :
          \/ a[i] = b[i]
          \/ LetterIndex(a[i]) # 0 /\ LetterIndex(a[i]) = LetterIndex(b[i])

\* C14: when vendorName is changed to a value that equals, ignoring case, the
\* name of a loaded vendor, vendorEmail becomes the email of the first such
\* vendor of the list; when the value matches no loaded vendor, or none is
\* loaded, vendorEmail is left as it is.
C14_VendorNameFillsEmail ==
    [][\A value \in VendorNameInputs :
          handleInputChange("vendorName", value) =>
             LET matches == {i \in 1..Len(vendors) :
                                EqualIgnoringCase(vendors[i].name, value)}
             IN  /\ formData'.vendorName = value
                 /\ IF matches = {}
                    THEN formData'.vendorEmail = formData.vendorEmail
                    ELSE \E i \in matches :
                            /\ \A j \in matches : i <= j
                            /\ formData'.vendorEmail = vendors[i].email]_vars

\* Two vendors are named Ab and aB; AB was typed and the email is the first one's.
C14_Witness ==
    /\ Len(vendors) = 2
    /\ vendors[1].name = <<"A", "b">> /\ vendors[2].name = <<"a", "B">>
    /\ formData.vendorName = <<"A", "B">>
    /\ formData.vendorEmail = <<"a", "@", "b", ".", "c">>

----------------------------------------------------------------------------
(* Properties of the vendor directory. *)

\* The rows after the first whose name cell is neither empty nor the header's.
KeptRows(rows, nameIdx) ==
    {i \in 2..Len(rows) :
        /\ CleanCell(rows[i], nameIdx) # <<>>
        /\ ~EqualIgnoringCase(CleanCell(rows[i], nameIdx), VendorNameHeader)}

\* vendors holds the kept rows, in the order of the sheet.
HoldsKeptRows(list, rows, nameIdx, emailIdx) ==
    LET kept == KeptRows(rows, nameIdx)
    IN  /\ Len(list) = Cardinality(kept)
        /\ \A i \in kept :
              LET k == Cardinality({j \in kept : j <= i})
              IN  list[k] = [name  |-> CleanCell(rows[i], nameIdx),
                             email |-> CleanCell(rows[i], emailIdx)]

\* C15: after any sequence of vendor syncs the vendors list has no entry with
\* an empty name and none named 'vendor name' (ignoring case), has no entry
\* built from the first row of the sheet and is never replaced by an empty
\* list; after a successful sync it holds the remaining rows in sheet order,
\* sheetError is null and the configuration panel is closed.
C15_VendorsListIsFiltered ==
    [][/\ \A k \in 1..Len(vendors') :
             /\ vendors'[k].name # <<>>
             /\ ~EqualIgnoringCase(vendors'[k].name, VendorNameHeader)
       /\ vendors' # vendors => vendors' # <<>>
       /\ \A i \in 1..MaxFetches : \A response \in SheetResponses :
             fetchResponds(i, response) /\ SheetFailure(fetches[i], response) = NULL =>
                /\ HoldsKeptRows(vendors', ParseCsv(response.text),
                                 fetches[i].nameIdx, fetches[i].emailIdx)
                /\ sheetError' = NULL
                /\ showSheetConfig' = FALSE]_vars

\* C16: isFetchingVendors is true in every state in which a request for the
\* sheet is outstanding and false in every state in which none is, also when
\* a second sync is started from the refresh button before an earlier one has
\* completed.
C16_FetchingFlagTracksRequests ==
    isFetchingVendors <=> fetches # <<>>

----------------------------------------------------------------------------
(* Properties of the sections. *)

\* C17: handleSubmit checks the fields before the signatures: when validation
\* fails activeSection is unchanged and the signatures are not asked for;
\* when validation passes and a signature is missing activeSection becomes
\* 'signatures'. At most one section is active at any moment; toggling the
\* active section collapses it, toggling another one makes that the active one.
C17_SubmitAndSections ==
    [][/\ (\E pdfOk \in BOOLEAN : handleSubmit(pdfOk)) =>
             IF ExpectedErrors(formData) # NoErrors
             THEN activeSection' = activeSection /\ out'.alert = FixErrorsAlert
             ELSE (vendorSignature = NULL \/ receiverSignature = NULL) =>
                     activeSection' = "signatures" /\ out'.alert = SignaturesAlert
       /\ activeSection' \in Sections \cup {NULL}
       /\ \A section \in Sections :
             toggleSection(section) =>
                IF activeSection = section THEN activeSection' = NULL
                ELSE activeSection' = section]_vars

\* A form without errors and without the vendor's signature was submitted, and
\* the signatures section is open.
C17_Witness ==
    /\ out.alert = SignaturesAlert
    /\ activeSection = "signatures"
    /\ vendorSignature = NULL
    /\ errors = NoErrors
    /\ validateForm(formData)

----------------------------------------------------------------------------
(* Properties of the signature pads. *)

\* The signature the form holds for a pad.
SignatureOf(pad) == IF pad = "vendor" THEN vendorSignature ELSE receiverSignature

\* C18: when a displayed signature pad is empty (isEmpty true, 'Sign Here'
\* shown) the signature the form holds for it is null, whatever pointer
\* events the pad has received and however the signatures section has been
\* collapsed and expanded.
C18_EmptyPadHasNoSignature ==
    \A pad \in PadNames :
        activeSection = "signatures" /\ pads[pad].isEmpty => SignatureOf(pad) = NULL

----------------------------------------------------------------------------
(* The PDF of an invoice with line items: the header is filled in, both     *)
(* pads hand their canvas to the form, items are added, priced and removed, *)
(* and the form is submitted.                                               *)

PdfNameInputs == { <<"A", "b">> }
PdfEmailInputs == { <<"a", "@", "b", ".", "c">> }

PdfItemStep ==
    \/ \E type \in LineItemTypes : addLineItem(type)
    \/ \E type \in LineItemTypes : \E id \in 1..MaxIds : removeLineItem(type, id)
    \/ \E type \in LineItemTypes : \E id \in 1..MaxIds :
          \E value \in QuantityInputs : updateLineItem(type, id, "quantity", value)
    \/ \E type \in LineItemTypes : \E id \in 1..MaxIds :
          \E value \in CostInputs : updateLineItem(type, id, "cost", value)

NextPdf ==
    \/ PdfItemStep
    \/ \E section \in Sections : toggleSection(section)
    \/ \E value \in PdfNameInputs : handleInputChange("vendorName", value)
    \/ \E value \in PdfEmailInputs : handleInputChange("vendorEmail", value)
    \/ \E pad \in PadNames : endDrawing(pad)
    \/ \E pdfOk \in BOOLEAN : handleSubmit(pdfOk)

SpecPdf == Init /\ [][NextPdf]_vars

----------------------------------------------------------------------------
(* Properties of the PDF. *)

\* C19: the delivery subtotal, the returns subtotal and the net total that
\* generateInvoicePDF writes into the PDF are those the form shows for the
\* same invoice data.
C19_PdfTotalsAreFormTotals ==
    [][(\E pdfOk \in BOOLEAN : handleSubmit(pdfOk)) /\ out'.pdfCalled =>
          /\ out'.pdf.deliveryTotal = view.deliveryTotal
          /\ out'.pdf.returnsTotal = view.returnsTotal
          /\ out'.pdf.netTotal = view.netTotal
          /\ view = Render(formData)]_vars

\* A PDF was made of a delivery of 2 x 3 and a return of 1 x 3, and the form
\* shows the same totals.
C19_Witness ==
    /\ out.pdfCalled
    /\ out.pdf = [deliveryTotal |-> 6, returnsTotal |-> 3, netTotal |-> 3]
    /\ view = out.pdf
    /\ Len(formData.deliveries) = 1 /\ formData.deliveries[1].quantity = 2
    /\ Len(formData.returns) = 1 /\ formData.returns[1].cost = 3

====
